---- MODULE Spec2Model ----
(***************************************************************************)
(* Model of the real-time bidding engine of the live-bidding platform:     *)
(* the Redis hot store with its three Lua scripts (place-bid,              *)
(* extend-auction, finalize-auction), the bid admission service with its   *)
(* lazy hydration path, the BullMQ persistence / finalization workers and  *)
(* the PostgreSQL cold store.  One auction is modelled (the S1 scenario:   *)
(* starting price 100, increment 5, end time 1000); every property below   *)
(* is a per-auction property.  Money amounts are whole units.              *)
(***************************************************************************)
EXTENDS Integers, Sequences, FiniteSets, TLC

\* ---------------------------------------------------------------- bounds
MaxTime == 1040       \* the wall clock stops ticking here
MaxFaults == 1        \* infrastructure faults in one behaviour: losses of
                      \* the hot auction key and transient worker errors
MaxLateTime == 1100   \* end of the clock of the late-bidding scenario
SnipeWindow == 10     \* late bids come this close to the end time
MaxLateBids == 3      \* bids of the late-bidding scenario
MaxDayJumps == 1      \* jumps of the clock over the retention window

\* ------------------------------------------------------ program constants
extensionThreshold == 30
extensionDuration == 30
retentionSec == 86400
bidAttempts == 3
bidBackoff == 2
finalizeAttempts == 5
finalizeBackoff == 5

\* ------------------------------------------------------------ value sets
Reqs == {1, 2}             \* the placeBid calls of one behaviour
Seller == "seller"
Bidders == {"u1", "u2", Seller}
Amounts == {100, 105, 0 - 5}
NoTime == 0 - 1            \* no TTL / no index entry
Null == 0 - 1              \* SQL NULL / JS null in a numeric column
NaN == 0 - 2               \* JS NaN produced by parseFloat / parseInt
NoRecord == [exists |-> FALSE]
Conns == {"u1", "u2"}      \* the sockets, named by their socket.userId
NoEmit == [events |-> {}, r |-> 0, to |-> {}, room |-> {}]
\* the auctionId of an auction:join or auction:leave payload: the id as a
\* string, or a one-element array holding it (a fresh object each time)
Payloads == {"text", "list"}
\* no BID_PLACED message yet; a message of the bundled client carries
\* auctionId, userId and amount, and no timestamp
NoMsg == [conn |-> "", userId |-> "", timestamp |-> NoTime]
\* a socket after the connection handler: socket.joinedAuctions = new Set()
NewSocket == [connected |-> TRUE, joinedAuctions |-> {}]

VARIABLES
  now,          \* server wall clock, seconds (Date.now() / 1000)
  hot,          \* Redis hash auction:{id}, or NoRecord
  hotExpireAt,  \* EXPIREAT of the auction key, NoTime when it has no TTL
  hotBids,      \* Redis sorted set auction:{id}:bids
  activeIdx,    \* score of the auction in auctions:active, NoTime if absent
  rateTokens,   \* bidders whose rate_limit:bid:{id} key is alive
  cold,         \* the PostgreSQL auctions row
  coldBids,     \* the PostgreSQL bids table, in insertion order
  req,          \* the in-flight BidService.placeBid calls
  persistQ,     \* bid-persistence queue
  updateQ,      \* auction-update queue
  finalJob,     \* the job finalize-{auctionId} of the finalization queue
  bus,          \* messages published on Redis Pub/Sub, in publish order
  commits,      \* history: bids accepted by the place-bid script, in order
  finalSnap,    \* history: what the finalize script returned at its commit
  overwrites,   \* history: hydrations that replaced an existing record by
                \* a different one
  faults,       \* faults injected so far
  dayJumps,     \* retention windows jumped so far
  room,         \* the sockets that are in the Socket.io room auction:{id}
  cursor,       \* how many messages of the bus the subscriber has handled
  replied,      \* the calls whose result the BID_PLACED handler has emitted
  emitted,      \* history: the last emit (events, call, recipients, room)
  sockets,      \* per socket: connected, and its joinedAuctions set
  msgs,         \* history: the socket and the client's fields of the
                \* BID_PLACED message of each call
  first,        \* history: the first event sent to each socket, "" if none
  bidsExpireAt, \* EXPIREAT of the key auction:{id}:bids, NoTime without TTL
  listenerJobs  \* history: the auctionId of every finalize job that the
                \* expiry listener added

vars == <<now, hot, hotExpireAt, hotBids, activeIdx, rateTokens, cold,
          coldBids, req, persistQ, updateQ, finalJob, bus, commits,
          finalSnap, overwrites, faults, dayJumps, room, cursor, replied,
          emitted, first, sockets, msgs, bidsExpireAt, listenerJobs>>

RECURSIVE Pow2(_)
Pow2(n) == IF n <= 0 THEN 1 ELSE 2 * Pow2(n - 1)

\* ------------------------------------------------------------ place-bid
EffectiveIncrement(h, hint) ==
  IF hint > 0 THEN hint ELSE h.bid_increment

IsFirstBid(h) == h.highest_bidder_id = ""

MinimumBid(h, hint) ==
  IF IsFirstBid(h) THEN h.starting_price
  ELSE h.current_bid + EffectiveIncrement(h, hint)

\* variant for C4: the end-time check of the script with > in place of >=
PlaceBidStatus_C4m(h, amount, bidder, time, hint) ==
  IF ~h.exists THEN 0 - 2
  ELSE IF amount <= 0 THEN 0 - 5
  ELSE IF h.status # "active" THEN 0 - 3
  ELSE IF time > h.end_time THEN 0 - 1
  ELSE IF bidder = h.seller_id THEN 0 - 4
  ELSE IF amount < MinimumBid(h, hint) THEN 0
  ELSE 1

\* variant for C5: the script without its seller check
PlaceBidStatus_C5m(h, amount, bidder, time, hint) ==
  IF ~h.exists THEN 0 - 2
  ELSE IF amount <= 0 THEN 0 - 5
  ELSE IF h.status # "active" THEN 0 - 3
  ELSE IF time >= h.end_time THEN 0 - 1
  ELSE IF amount < MinimumBid(h, hint) THEN 0
  ELSE 1

\* place-bid.lua: the validation chain, in the order of the script
PlaceBidStatus(h, amount, bidder, time, hint) ==
  IF ~h.exists THEN 0 - 2
  ELSE IF amount <= 0 THEN 0 - 5
  ELSE IF h.status # "active" THEN 0 - 3
  ELSE IF time >= h.end_time THEN 0 - 1
  ELSE IF bidder = h.seller_id THEN 0 - 4
  ELSE IF amount < MinimumBid(h, hint) THEN 0
  ELSE 1

\* variant for C21: the script writing before its minimum-bid check
ScriptWrites_C21m(status) == status >= 0

\* the script reaches its HSET / HINCRBY / ZADD only past every check
ScriptWrites(status) == status = 1

PlaceBidUpdate(h, amount, bidder) ==
  [h EXCEPT !.current_bid = amount,
            !.highest_bidder_id = bidder,
            !.total_bids = @ + 1]

\* --------------------------------------------- amounts with cents in Lua
\* A Redis script holds every number as an IEEE 754 double.  A double below
\* 2^IntBits is written here as its Width binary digits, most significant
\* first, FracBits of them after the point; an amount with cents is given
\* as its number of cents.
Mantissa == 53
IntBits == 10
FracBits == 62
Width == IntBits + FracBits

\* (An operator argument is evaluated anew wherever it is used; binding
\* it in a one-element set makes it a value that is computed once.)

\* the k binary digits of the integer n
IntToBits(n, k) == [i \in 1..k |-> (n \div Pow2(k - i)) % 2]

\* 2^i modulo 100: from 4 on the powers of two repeat modulo 100 with
\* period 20
Pow2Mod100(i) == IF i < 2 THEN Pow2(i) ELSE Pow2(2 + ((i - 2) % 20)) % 100

\* what the long division of rem / 100 leaves after k binary digits
FracRest(rem, k) == (rem * Pow2Mod100(k)) % 100

\* the first k binary digits of rem / 100, by long division
FracToBits(rem, k) == [i \in 1..k |-> (2 * FracRest(rem, i - 1)) \div 100]

\* the position of the first digit 1, 0 when there is none
LeadingOne(bits) ==
  IF \E i \in DOMAIN bits : bits[i] = 1
  THEN CHOOSE i \in DOMAIN bits :
         bits[i] = 1 /\ \A j \in 1..(i - 1) : bits[j] = 0
  ELSE 0

\* the last position up to p that holds a 0, 0 when there is none
LastZero(bits, p) ==
  IF \E i \in 1..p : bits[i] = 0
  THEN CHOOSE i \in 1..p : bits[i] = 0 /\ \A j \in (i + 1)..p : bits[j] = 1
  ELSE 0

\* one unit is added at position p: the carry runs to the left through
\* the digits 1 and stops at the first 0
AddOneAt(bits, p) ==
  [i \in 1..Width |->
     IF i > p \/ i < LastZero(bits, p) THEN bits[i]
     ELSE IF i = LastZero(bits, p) THEN 1
     ELSE 0]

\* round to nearest, ties to even, on Mantissa significant digits; rest
\* is what lies beyond the last digit of bits
Rounded(bits, rest, last) ==
  IF last < Mantissa \/ last >= Width THEN bits
  ELSE IF /\ bits[last + 1] = 1
          /\ \/ rest # 0
             \/ \E i \in (last + 2)..Width : bits[i] = 1
             \/ bits[last] = 1
       THEN AddOneAt(SubSeq(bits, 1, last)
                       \o [i \in 1..(Width - last) |-> 0], last) \o <<>>
  ELSE SubSeq(bits, 1, last) \o [i \in 1..(Width - last) |-> 0]

RoundToDouble(bits, rest) ==
  CHOOSE d \in {Rounded(b, r, LeadingOne(b) + Mantissa - 1) :
                b \in {bits \o <<>>}, r \in {rest}} : TRUE

\* tonumber of the decimal string of an amount of c cents
tonumber(c) ==
  RoundToDouble(IntToBits(c \div 100, IntBits)
                  \o FracToBits(c % 100, FracBits),
                FracRest(c % 100, FracBits))

\* the carry that goes into position i when a and b are added: some
\* position further right produces a carry and every position between
\* hands it on
Carry(a, b, i) ==
  \E k \in (i + 1)..Width :
    /\ a[k] = 1 /\ b[k] = 1
    /\ \A m \in (i + 1)..(k - 1) : a[m] + b[m] = 1

\* the digits of a + b
AddBits(a, b) ==
  [i \in 1..Width |->
     (a[i] + b[i] + (IF Carry(a, b, i) THEN 1 ELSE 0)) % 2]

\* a + b of two Lua numbers
DoubleAdd(a, b) ==
  CHOOSE d \in {RoundToDouble(AddBits(x, y), 0) :
                x \in {a}, y \in {b}} : TRUE

\* a < b of two Lua numbers
DoubleLess(a, b) ==
  \E x \in {a}, y \in {b} :
    \E i \in 1..Width : x[i] < y[i] /\ \A j \in 1..(i - 1) : x[j] = y[j]

\* bidAmount < minimumBid as the script evaluates it on amounts with cents
TooLowInLua(h, amount, hint) ==
  LET bidIncrement == IF hint > 0 THEN tonumber(hint)
                      ELSE tonumber(h.bid_increment)
      minimumBid == IF IsFirstBid(h) THEN tonumber(h.starting_price)
                    ELSE DoubleAdd(tonumber(h.current_bid), bidIncrement)
  IN DoubleLess(tonumber(amount), minimumBid)

\* place-bid.lua on a record whose amounts are in cents
PlaceBidStatusCents(h, amount, bidder, time, hint) ==
  LET s == PlaceBidStatus(h, amount, bidder, time, hint) IN
  IF s \notin {0, 1} THEN s
  ELSE IF TooLowInLua(h, amount, hint) THEN 0
  ELSE 1

\* -------------------------------------------------------- extend-auction
\* variant for C14: the extension script without its status check
ExtendStatus_C14m(h, time) ==
  IF ~h.exists THEN 0 - 1
  ELSE IF h.end_time - time > 0 /\ h.end_time - time <= extensionThreshold
       THEN 1
  ELSE 0

\* variant for C26: the window of the script without its upper end
ExtendStatus_C26m(h, time) ==
  IF ~h.exists THEN 0 - 1
  ELSE IF h.status # "active" THEN 0 - 2
  ELSE IF h.end_time - time > 0 /\ h.end_time - time < extensionThreshold
       THEN 1
  ELSE 0

ExtendStatus(h, time) ==
  IF ~h.exists THEN 0 - 1
  ELSE IF h.status # "active" THEN 0 - 2
  ELSE IF h.end_time - time > 0 /\ h.end_time - time <= extensionThreshold
       THEN 1
  ELSE 0

\* variant for C8: the extension script moving the end time the wrong way
ExtendNewEndTime_C8m(h) == h.end_time - extensionDuration

ExtendNewEndTime(h) == h.end_time + extensionDuration

\* ------------------------------------------------------ finalize-auction
\* variant for C27: the finalize script without its already-final check
FinalizeStatus_C27m(h, time) ==
  IF ~h.exists THEN 0 - 1
  ELSE IF time < h.end_time THEN 0 - 2
  ELSE IF h.total_bids > 0 THEN 1
  ELSE 0

FinalizeStatus(h, time) ==
  IF ~h.exists THEN 0 - 1
  ELSE IF h.status = "ended" THEN 0 - 3
  ELSE IF time < h.end_time THEN 0 - 2
  ELSE IF h.total_bids > 0 THEN 1
  ELSE 0

\* data of the script's reply: the no-bid reply (status 0) carries neither
\* winner_id, winning_bid nor end_time
FinalizeData(h) ==
  IF h.total_bids > 0
  THEN [winner_id |-> h.highest_bidder_id, winning_bid |-> h.current_bid,
        total_bids |-> h.total_bids, end_time |-> h.end_time]
  ELSE [winner_id |-> "", winning_bid |-> Null,
        total_bids |-> h.total_bids, end_time |-> NaN]

\* ------------------------------------------------------------ cold store
\* AuctionRepository.update: unconditional UPDATE ... WHERE id = $n.  The
\* statement fails as a whole when a parameter cannot be stored (NaN in
\* the INTEGER column total_bids).
UpdateRejected(updates) ==
  "total_bids" \in DOMAIN updates /\ updates.total_bids = NaN

AuctionRepositoryUpdate(row, updates) ==
  [f \in DOMAIN row |-> IF f \in DOMAIN updates THEN updates[f] ELSE row[f]]

\* AuctionService.loadAuctionToRedis: the hash written for a cold row
\* (row.current_bid || row.starting_price: only NULL falls through, the
\* driver returns DECIMAL columns as non-empty strings)
HydratedRecord(row) ==
  [exists |-> TRUE,
   seller_id |-> row.seller_id,
   starting_price |-> row.starting_price,
   current_bid |-> IF row.current_bid = Null THEN row.starting_price
                   ELSE row.current_bid,
   bid_increment |-> row.bid_increment,
   highest_bidder_id |-> row.highest_bidder_id,
   total_bids |-> row.total_bids,
   end_time |-> row.end_time,
   status |-> row.status]

\* ---------------------------------------------------------------- queues
NoJob == [state |-> "none", runAt |-> 0, attempts |-> 0, finishedAt |-> 0]

\* Queue.add with jobId finalize-{auctionId}: ignored while a job with
\* that id is still known to the queue
scheduleAuctionFinalization(job, endTime) ==
  IF job.state # "none" THEN job
  ELSE [NoJob EXCEPT !.state = "delayed",
                     !.runAt = IF endTime > now THEN endTime ELSE now]

\* exponential backoff of the attempt that follows attemptsMade failures
Backoff(base, attemptsMade) == base * Pow2(attemptsMade - 1)

\* a placeBid call: its arguments, its program counter, the reply of the
\* last place-bid execution (status, totalBids), the cold row read on a
\* cache miss (snap), what the script saw when it ran (seen), the error
\* code of its result or of the error it threw (code, thrown)
IdleReq == [pc |-> "idle", bidder |-> "", amount |-> 0, time |-> 0,
            status |-> 9, totalBids |-> 0, snap |-> NoRecord,
            extended |-> FALSE, code |-> "", thrown |-> FALSE,
            rivals |-> {},
            seen |-> [exists |-> FALSE, active |-> FALSE, end_time |-> 0 - 1]]

InitialRow ==
  [exists |-> TRUE, seller_id |-> Seller, starting_price |-> 100,
   current_bid |-> 0, bid_increment |-> 5, highest_bidder_id |-> "",
   total_bids |-> 0, end_time |-> 1000, status |-> "active"]

\* State after AuctionService.createAuction of an active auction at 980:
\* the row is inserted, loaded into Redis and its finalization scheduled.
Init ==
  /\ now = 980
  /\ cold = InitialRow
  /\ hot = HydratedRecord(InitialRow)
  /\ hotExpireAt = InitialRow.end_time + retentionSec
  /\ hotBids = {}
  /\ activeIdx = InitialRow.end_time
  /\ rateTokens = {}
  /\ coldBids = <<>>
  /\ req = [r \in Reqs |-> IdleReq]
  /\ persistQ = {}
  /\ updateQ = {}
  /\ finalJob = [NoJob EXCEPT !.state = "delayed",
                              !.runAt = InitialRow.end_time]
  /\ bus = <<>>
  /\ commits = <<>>
  /\ finalSnap = NoRecord
  /\ overwrites = 0
  /\ faults = 0
  /\ dayJumps = 0
  /\ room = {}
  /\ cursor = 0
  /\ replied = {}
  /\ emitted = NoEmit
  /\ first = [c \in Conns |-> ""]
  /\ sockets = [c \in Conns |-> NewSocket]
  /\ bidsExpireAt = NoTime
  /\ listenerJobs = {}
  /\ msgs = [r \in Reqs |-> NoMsg]

\* BidService.getErrorCode
getErrorCode(status) ==
  CASE status = 0 -> "BID_TOO_LOW"
    [] status = 0 - 1 -> "AUCTION_ENDED"
    [] status = 0 - 2 -> "AUCTION_NOT_FOUND"
    [] status = 0 - 3 -> "AUCTION_NOT_ACTIVE"
    [] status = 0 - 4 -> "SELLER_CANNOT_BID"
    [] status = 0 - 5 -> "INVALID_BID_AMOUNT"
    [] OTHER -> "UNKNOWN_ERROR"

\* ------------------------------------------------- bid admission service
\* the BID_PLACED handler's checks of the payload: !amount, then
\* isNaN(bidAmount) || bidAmount <= 0
ValidateInput(a) ==
  IF a = 0 THEN "INVALID_INPUT"
  ELSE IF a <= 0 THEN "INVALID_AMOUNT"
  ELSE "OK"

\* what the BID_PLACED handler emits to the socket when the call is over:
\* BID_ACCEPTED on success, BID_REJECTED with the result's errorCode, and
\* BID_REJECTED with BID_FAILED when placeBid threw
HandlerReply(q) ==
  IF q.thrown THEN [event |-> "BID_REJECTED", code |-> "BID_FAILED"]
  ELSE IF q.code = "OK" THEN [event |-> "BID_ACCEPTED", code |-> ""]
  ELSE [event |-> "BID_REJECTED", code |-> q.code]

\* variant for C13: placeBid going on after a BID_TOO_LOW reply as well
Accepted_C13m(status) == status >= 0

\* placeBid goes on after the script when result.status === 1
Accepted(status) == status = 1

\* variant for C38: the bidder taken from the payload
BidderId_C38m(c, data) == data.userId

\* the bidder of a BID_PLACED message: socket.userId, which the
\* authentication middleware took from the token; data.userId is not read
BidderId(c, data) == c

\* The BID_PLACED handler on socket c with payload data, and
\* BidService.placeBid up to the rate gate: the payload is checked, the
\* server time is read once (Date.now(), no field of the payload), then
\* SET rate_limit:bid:{bidder} NX EX 1; a failed gate throws AppError
\* RATE_LIMIT_EXCEEDED
BidPlaced(r, c, data) ==
  LET b == BidderId(c, data)
      a == data.amount
  IN
  /\ req[r].pc = "idle"
  /\ msgs' = [msgs EXCEPT ![r] = [conn |-> c, userId |-> data.userId,
                                  timestamp |-> data.timestamp]]
  /\ IF ValidateInput(a) # "OK"
     THEN /\ req' = [req EXCEPT ![r] = [@ EXCEPT !.pc = "done", !.bidder = b,
                        !.amount = a, !.code = ValidateInput(a)]]
          /\ UNCHANGED rateTokens
     ELSE IF b \in rateTokens
     THEN /\ req' = [req EXCEPT ![r] = [@ EXCEPT !.pc = "done", !.bidder = b,
                        !.amount = a, !.time = now,
                        !.code = "RATE_LIMIT_EXCEEDED", !.thrown = TRUE]]
          /\ UNCHANGED rateTokens
     ELSE /\ req' = [req EXCEPT ![r] = [@ EXCEPT !.pc = "p1", !.bidder = b,
                        !.amount = a, !.time = now]]
          /\ rateTokens' = rateTokens \cup {b}
  /\ UNCHANGED <<now, hot, hotExpireAt, hotBids, activeIdx, cold, coldBids,
                 persistQ, updateQ, finalJob, bus, commits, finalSnap,
                 overwrites, faults, dayJumps, room, cursor,
                 replied, emitted, first, sockets,
                 bidsExpireAt, listenerJobs>>

\* the message of the bundled client (handleBid) of user b
Submit(r, b, a) ==
  BidPlaced(r, b, [amount |-> a, userId |-> b, timestamp |-> NoTime])

\* what an execution of the script found: was the record there and active,
\* and its end time
Seen(h) ==
  IF h.exists
  THEN [exists |-> TRUE, active |-> h.status = "active",
        end_time |-> h.end_time]
  ELSE [exists |-> FALSE, active |-> FALSE, end_time |-> NoTime]

\* history: the other calls that wait for their first run of the script
\* and whose bid the script would accept on the present record
Rivals(r) ==
  {o \in Reqs \ {r} :
     /\ req[o].pc = "p1"
     /\ PlaceBidStatus(hot, req[o].amount, req[o].bidder, req[o].time, 0) = 1}

\* One atomic execution of place-bid.lua for call r with increment hint,
\* followed by the continuation of placeBid up to its next await
RunPlaceBid(r, hint, missPc) ==
  LET q == req[r]
      s == PlaceBidStatus(hot, q.amount, q.bidder, q.time, hint)
  IN
  /\ IF ScriptWrites(s)
     THEN /\ hot' = PlaceBidUpdate(hot, q.amount, q.bidder)
          /\ hotBids' = hotBids \cup
                {[bidder_id |-> q.bidder, amount |-> q.amount,
                  time |-> q.time, previous_bid |-> hot.current_bid]}
          /\ commits' = Append(commits,
                [r |-> r, bidder |-> q.bidder, amount |-> q.amount,
                 time |-> q.time, end_time |-> hot.end_time,
                 seller_id |-> hot.seller_id,
                 bid_increment |-> hot.bid_increment])
          /\ bidsExpireAt' = hot.end_time + retentionSec
     ELSE UNCHANGED <<hot, hotBids, commits, bidsExpireAt>>
  /\ IF Accepted(s)
     THEN /\ persistQ' = persistQ \cup
                {[r |-> r, bidder |-> q.bidder, amount |-> q.amount,
                  time |-> q.time, previousBid |-> hot.current_bid,
                  totalBids |-> hot.total_bids + 1, attempts |-> 0,
                  runAt |-> 0]}
          /\ req' = [req EXCEPT ![r] = [@ EXCEPT !.pc = "extend",
                        !.status = s, !.totalBids = hot.total_bids + 1,
                        !.seen = Seen(hot), !.rivals = Rivals(r)]]
     ELSE /\ req' = [req EXCEPT ![r] = [@ EXCEPT
                        !.pc = IF s = 0 - 2 THEN missPc ELSE "done",
                        !.status = s, !.seen = Seen(hot),
                        !.code = IF s = 0 - 2 /\ missPc # "done" THEN ""
                                 ELSE getErrorCode(s)]]
          /\ UNCHANGED persistQ
  /\ UNCHANGED <<now, hotExpireAt, activeIdx, rateTokens, cold, coldBids,
                 updateQ, finalJob, bus, finalSnap, overwrites, faults,
                 dayJumps, room, cursor,
                 replied, emitted, first,
                 sockets, msgs, listenerJobs>>

\* first call of the script, with the empty increment hint
PlaceBid(r) ==
  /\ req[r].pc = "p1"
  /\ RunPlaceBid(r, 0, "find")

\* cache miss: auctionRepository.findById
FindAuction(r) ==
  /\ req[r].pc = "find"
  /\ req' = IF cold.exists
            THEN [req EXCEPT ![r] = [@ EXCEPT !.pc = "load", !.snap = cold]]
            ELSE [req EXCEPT ![r] = [@ EXCEPT !.pc = "done",
                                     !.code = "AUCTION_NOT_FOUND",
                                     !.thrown = TRUE]]
  /\ UNCHANGED <<now, hot, hotExpireAt, hotBids, activeIdx, rateTokens, cold,
                 coldBids, persistQ, updateQ, finalJob, bus, commits,
                 finalSnap, overwrites, faults, dayJumps, room, cursor,
                 replied, emitted, first,
                 sockets, msgs,
                 bidsExpireAt, listenerJobs>>

\* AuctionService.loadAuctionToRedis(snap): HSET, EXPIRE, ZADD, schedule
LoadAuction(r) ==
  LET row == req[r].snap IN
  /\ req[r].pc = "load"
  /\ req' = [req EXCEPT ![r] = [@ EXCEPT !.pc = "retry"]]
  /\ IF row.end_time - now <= 0
     THEN UNCHANGED <<hot, hotExpireAt, activeIdx, finalJob, overwrites>>
     ELSE /\ hot' = HydratedRecord(row)
          /\ hotExpireAt' = now + (row.end_time - now) + retentionSec
          /\ activeIdx' = row.end_time
          /\ finalJob' = scheduleAuctionFinalization(finalJob, row.end_time)
          /\ overwrites' = IF hot.exists /\ hot # HydratedRecord(row)
                           THEN overwrites + 1 ELSE overwrites
  /\ UNCHANGED <<now, hotBids, rateTokens, cold, coldBids, persistQ, updateQ,
                 bus, commits, finalSnap, faults, dayJumps, room, cursor,
                 replied, emitted, first,
                 sockets, msgs,
                 bidsExpireAt, listenerJobs>>

\* the single retry of the script, with the increment of the cold row
RetryBid(r) ==
  /\ req[r].pc = "retry"
  /\ RunPlaceBid(r, req[r].snap.bid_increment, "done")

\* the message placeBid publishes on auction:bid_placed; its
\* extensionData carries the new end time when the bid extended the
\* auction
BidPlacedEvent(r, q, extended) ==
  [type |-> "bid_placed", r |-> r, bidder |-> q.bidder, amount |-> q.amount,
   totalBids |-> q.totalBids, extended |-> extended,
   newEndTime |-> IF extended THEN ExtendNewEndTime(hot) ELSE NoTime]

\* The rest of placeBid after an accepted bid: checkAndExtendAuction (one
\* atomic run of extend-auction.lua with the time read at the start of the
\* call, and the auction-update job when it extended), then the publish
\* on auction:bid_placed and the reply to the caller
ExtendAuction(r) ==
  LET q == req[r]
      s == ExtendStatus(hot, q.time)
  IN
  /\ q.pc = "extend"
  /\ IF s = 1
     THEN /\ hot' = [hot EXCEPT !.end_time = ExtendNewEndTime(hot)]
          /\ activeIdx' = ExtendNewEndTime(hot)
          /\ hotExpireAt' = ExtendNewEndTime(hot) + retentionSec
          /\ updateQ' = updateQ \cup
                {[r |-> r, endTime |-> ExtendNewEndTime(hot)]}
     ELSE UNCHANGED <<hot, activeIdx, hotExpireAt, updateQ>>
  /\ bus' = Append(bus, BidPlacedEvent(r, q, s = 1))
  /\ req' = [req EXCEPT ![r] = [@ EXCEPT !.pc = "done", !.code = "OK",
                                         !.extended = (s = 1)]]
  /\ UNCHANGED <<now, hotBids, rateTokens, cold, coldBids, persistQ,
                 finalJob, commits, finalSnap, overwrites, faults,
                 dayJumps, room, cursor,
                 replied, emitted, first,
                 sockets, msgs,
                 bidsExpireAt, listenerJobs>>

\* The rest of placeBid when the publish on auction:bid_placed throws (the
\* connection to Redis fails) after checkAndExtendAuction went through:
\* nothing is published, placeBid throws and the handler's catch answers
ExtendAuctionFail(r) ==
  LET q == req[r]
      s == ExtendStatus(hot, q.time)
  IN
  /\ q.pc = "extend"
  /\ faults < MaxFaults
  /\ faults' = faults + 1
  /\ IF s = 1
     THEN /\ hot' = [hot EXCEPT !.end_time = ExtendNewEndTime(hot)]
          /\ activeIdx' = ExtendNewEndTime(hot)
          /\ hotExpireAt' = ExtendNewEndTime(hot) + retentionSec
          /\ updateQ' = updateQ \cup
                {[r |-> r, endTime |-> ExtendNewEndTime(hot)]}
     ELSE UNCHANGED <<hot, activeIdx, hotExpireAt, updateQ>>
  /\ req' = [req EXCEPT ![r] = [@ EXCEPT !.pc = "done", !.code = "ERROR",
                                         !.thrown = TRUE,
                                         !.extended = (s = 1)]]
  /\ UNCHANGED <<now, hotBids, rateTokens, cold, coldBids, persistQ,
                 finalJob, bus, commits, finalSnap, overwrites, dayJumps,
                 room, cursor, replied, emitted, first,
                 sockets, msgs,
                 bidsExpireAt, listenerJobs>>

\* ------------------------------------------------ bid-persistence worker
\* the row bidRepository.create inserts for a job
BidRow(j) ==
  [r |-> j.r, bidder_id |-> j.bidder, amount |-> j.amount,
   bid_time |-> j.time, previous_bid |-> j.previousBid]

\* the auctions columns a persist-bid job mirrors: its own bid
BidMirror(j) ==
  [current_bid |-> j.amount, highest_bidder_id |-> j.bidder,
   total_bids |-> j.totalBids]

\* processBidPersistence running to completion: the job carries no bidId,
\* so the existence check is skipped; INSERT into bids (fresh primary key),
\* then auctionRepository.update
processBidPersistence(j) ==
  /\ j \in persistQ /\ now >= j.runAt
  /\ coldBids' = Append(coldBids, BidRow(j))
  /\ cold' = AuctionRepositoryUpdate(cold, BidMirror(j))
  /\ persistQ' = persistQ \ {j}
  /\ UNCHANGED <<now, hot, hotExpireAt, hotBids, activeIdx, rateTokens, req,
                 updateQ, finalJob, bus, commits, finalSnap, overwrites,
                 faults, dayJumps, room, cursor,
                 replied, emitted, first,
                 sockets, msgs,
                 bidsExpireAt, listenerJobs>>

\* processBidPersistence when the UPDATE throws a transient error (not
\* 23505) after the INSERT went through: the error is rethrown and the job
\* is retried from the start while attempts remain.  (An error in the
\* INSERT itself only delays the job.)
processBidPersistenceFail(j) ==
  /\ j \in persistQ /\ now >= j.runAt
  /\ faults < MaxFaults
  /\ faults' = faults + 1
  /\ coldBids' = Append(coldBids, BidRow(j))
  /\ persistQ' = (persistQ \ {j}) \cup
        (IF j.attempts + 1 < bidAttempts
         THEN {[j EXCEPT !.attempts = @ + 1,
                         !.runAt = now + Backoff(bidBackoff, j.attempts + 1)]}
         ELSE {})
  /\ UNCHANGED <<now, hot, hotExpireAt, hotBids, activeIdx, rateTokens, cold,
                 req, updateQ, finalJob, bus, commits, finalSnap, overwrites,
                 dayJumps, room, cursor,
                 replied, emitted, first,
                 sockets, msgs,
                 bidsExpireAt, listenerJobs>>

\* processAuctionUpdate on the job enqueued by an extension, which carries
\* only endTime: parseFloat(undefined) and parseInt(undefined) are NaN
AuctionUpdates(j) ==
  [current_bid |-> NaN, highest_bidder_id |-> "", total_bids |-> NaN,
   end_time |-> j.endTime]

\* Every attempt of such a job is rejected by the store and changes
\* nothing, so its three attempts are taken in one step, after which the
\* job is failed.
processAuctionUpdate(j) ==
  /\ j \in updateQ
  /\ cold' = IF UpdateRejected(AuctionUpdates(j)) THEN cold
             ELSE AuctionRepositoryUpdate(cold, AuctionUpdates(j))
  /\ updateQ' = updateQ \ {j}
  /\ UNCHANGED <<now, hot, hotExpireAt, hotBids, activeIdx, rateTokens,
                 coldBids, req, persistQ, finalJob, bus, commits, finalSnap,
                 overwrites, faults, dayJumps, room, cursor,
                 replied, emitted, first,
                 sockets, msgs,
                 bidsExpireAt, listenerJobs>>

\* --------------------------------------------- auction-finalizer worker
\* the attempt threw: BullMQ retries with exponential backoff while
\* attempts remain, else the job is failed
JobFailed(job) ==
  IF job.attempts + 1 < finalizeAttempts
  THEN [job EXCEPT !.state = "delayed", !.attempts = @ + 1,
                   !.runAt = now + Backoff(finalizeBackoff, job.attempts + 1)]
  ELSE [job EXCEPT !.state = "failed", !.attempts = @ + 1,
                   !.finishedAt = now]

JobCompleted(job) ==
  [job EXCEPT !.state = "completed", !.finishedAt = now]

\* the message broadcastAuctionEnded publishes on auction:ended
EndedEvent(winnerId, winningBid, totalBids) ==
  [type |-> "ended", r |-> 0, bidder |-> winnerId, amount |-> winningBid,
   totalBids |-> totalBids, extended |-> FALSE]

\* the final state the worker mirrors into the cold row
FinalMirror(data) ==
  [status |-> "ended", current_bid |-> data.winning_bid,
   highest_bidder_id |-> data.winner_id, total_bids |-> data.total_bids]

\* the effect of finalize-auction.lua on Redis when it commits
FinalizeCommit ==
  /\ hot' = [hot EXCEPT !.status = "ended"]
  /\ activeIdx' = NoTime
  /\ hotExpireAt' = now + retentionSec
  /\ finalSnap' = hot

\* processAuctionFinalization, one attempt without infrastructure errors:
\* one atomic run of finalize-auction.lua at the worker's current time,
\* then the branch of its status.  With status 0 the reply carries no
\* end_time and new Date(end_time * 1000).toISOString() throws a
\* RangeError after the cold row has been written.
processAuctionFinalization ==
  LET s == FinalizeStatus(hot, now)
      data == FinalizeData(hot)
  IN
  /\ finalJob.state = "delayed" /\ now >= finalJob.runAt
  /\ CASE s = 0 - 1 ->
            /\ IF cold.status = "active"
               THEN /\ cold' = AuctionRepositoryUpdate(cold,
                                  [status |-> "ended"])
                    /\ bus' = Append(bus, EndedEvent(cold.highest_bidder_id,
                                  cold.current_bid, cold.total_bids))
               ELSE UNCHANGED <<cold, bus>>
            /\ finalJob' = JobCompleted(finalJob)
            /\ UNCHANGED <<hot, activeIdx, hotExpireAt, finalSnap>>
       [] s = 0 - 2 ->
            /\ finalJob' = JobFailed(finalJob)
            /\ UNCHANGED <<hot, activeIdx, hotExpireAt, finalSnap, cold, bus>>
       [] s = 0 - 3 ->
            /\ finalJob' = JobCompleted(finalJob)
            /\ UNCHANGED <<hot, activeIdx, hotExpireAt, finalSnap, cold, bus>>
       [] s = 0 ->
            /\ FinalizeCommit
            /\ cold' = AuctionRepositoryUpdate(cold, FinalMirror(data))
            /\ finalJob' = JobFailed(finalJob)
            /\ UNCHANGED bus
       [] OTHER ->
            /\ FinalizeCommit
            /\ cold' = AuctionRepositoryUpdate(cold, FinalMirror(data))
            /\ bus' = Append(bus, EndedEvent(data.winner_id,
                                  data.winning_bid, data.total_bids))
            /\ finalJob' = JobCompleted(finalJob)
  /\ UNCHANGED <<now, hotBids, rateTokens, coldBids, req, persistQ, updateQ,
                 commits, overwrites, faults, dayJumps, room, cursor,
                 replied, emitted, first,
                 sockets, msgs,
                 bidsExpireAt, listenerJobs>>

\* processAuctionFinalization, an attempt in which the script commits and
\* a later await throws a transient error: the cold-store write (at =
\* "mirror") or the publish (at = "publish"); the job is retried
processAuctionFinalizationFail(at) ==
  LET s == FinalizeStatus(hot, now)
      data == FinalizeData(hot)
  IN
  /\ finalJob.state = "delayed" /\ now >= finalJob.runAt
  /\ s >= 0
  /\ faults < MaxFaults
  /\ faults' = faults + 1
  /\ FinalizeCommit
  /\ cold' = IF at = "mirror" THEN cold
             ELSE AuctionRepositoryUpdate(cold, FinalMirror(data))
  /\ finalJob' = JobFailed(finalJob)
  /\ UNCHANGED <<now, hotBids, rateTokens, coldBids, req, persistQ, updateQ,
                 bus, commits, overwrites, dayJumps, room, cursor,
                 replied, emitted, first,
                 sockets, msgs,
                 bidsExpireAt, listenerJobs>>

\* removeOnComplete { age: 86400 }: the completed job is forgotten
RemoveRetainedJob ==
  /\ finalJob.state = "completed"
  /\ now - finalJob.finishedAt >= retentionSec
  /\ finalJob' = NoJob
  /\ UNCHANGED <<now, hot, hotExpireAt, hotBids, activeIdx, rateTokens, cold,
                 coldBids, req, persistQ, updateQ, bus, commits, finalSnap,
                 overwrites, faults, dayJumps, room, cursor,
                 replied, emitted, first,
                 sockets, msgs,
                 bidsExpireAt, listenerJobs>>

\* ------------------------------------------------------------ environment
\* Redis key names, as the sequence of their ':'-separated parts
AuctionKey == <<"auction", "id">>
BidsKey == <<"auction", "id", "bids">>
RateLimitKey(b) == <<"rate_limit", "bid", b>>

\* expiredKey.startsWith('auction:')
IsAuctionKey(key) == key[1] = "auction"

\* expiredKey.replace('auction:', ''): the parts after the prefix
ListenerAuctionId(key) == Tail(key)

\* the auctionId of the jobs the listener adds when key expires
ListenerJobs(key) ==
  IF IsAuctionKey(key) THEN {ListenerAuctionId(key)} ELSE {}

\* startAuctionExpirationListener: the auction key expires and the
\* listener adds finalize-{auctionId} without delay
ExpireKey ==
  /\ hot.exists /\ hotExpireAt # NoTime /\ now >= hotExpireAt
  /\ hot' = NoRecord
  /\ hotExpireAt' = NoTime
  /\ finalJob' = scheduleAuctionFinalization(finalJob, now)
  /\ listenerJobs' = listenerJobs \cup ListenerJobs(AuctionKey)
  /\ UNCHANGED <<now, hotBids, activeIdx, rateTokens, cold, coldBids, req,
                 persistQ, updateQ, bus, commits, finalSnap, overwrites,
                 faults, dayJumps, room, cursor,
                 replied, emitted, first,
                 sockets, msgs, bidsExpireAt>>

\* the bid-history key expires a day after the end time its last bid saw;
\* the listener's add either succeeds or throws on the custom job id
\* finalize-{id}:bids and is caught
ExpireBidsKey(added) ==
  /\ bidsExpireAt # NoTime /\ now >= bidsExpireAt
  /\ hotBids' = {}
  /\ bidsExpireAt' = NoTime
  /\ listenerJobs' = IF added THEN listenerJobs \cup ListenerJobs(BidsKey)
                     ELSE listenerJobs
  /\ UNCHANGED <<now, hot, hotExpireAt, activeIdx, rateTokens, cold,
                 coldBids, req, persistQ, updateQ, finalJob, bus, commits,
                 finalSnap, overwrites, faults, dayJumps, room, cursor,
                 replied, emitted, first, sockets, msgs>>

\* the auction key is lost without an expiry event (memory eviction, a
\* restart of the hot store): the state the cache-miss path exists for
Evict ==
  /\ hot.exists /\ faults < MaxFaults
  /\ hot' = NoRecord
  /\ hotExpireAt' = NoTime
  /\ faults' = faults + 1
  /\ UNCHANGED <<now, hotBids, activeIdx, rateTokens, cold, coldBids, req,
                 persistQ, updateQ, finalJob, bus, commits, finalSnap,
                 overwrites, dayJumps, room, cursor,
                 replied, emitted, first,
                 sockets, msgs,
                 bidsExpireAt, listenerJobs>>

\* The server process crashes and is started again (startServer): the
\* placeBid calls in flight die with it and are never answered (of a dead
\* call only its arguments and whether the script accepted its bid are
\* remembered); Redis, the queues and PostgreSQL live on.  startServer connects to Redis, starts
\* the expiration listener, the subscriptions and the workers; it reads
\* no auction from the cold store and schedules nothing.
startServer ==
  /\ req' = [r \in Reqs |->
               IF req[r].pc \in {"idle", "done", "crashed"} THEN req[r]
               ELSE [IdleReq EXCEPT !.pc = "crashed",
                                    !.bidder = req[r].bidder,
                                    !.amount = req[r].amount,
                                    !.time = req[r].time,
                                    !.status = IF req[r].status = 1
                                               THEN 1 ELSE 9]]
  /\ UNCHANGED <<now, hot, hotExpireAt, hotBids, activeIdx, rateTokens, cold,
                 coldBids, persistQ, updateQ, finalJob, bus, commits,
                 finalSnap, overwrites, faults, dayJumps, room, cursor,
                 replied, emitted, first,
                 sockets, msgs,
                 bidsExpireAt, listenerJobs>>

\* twenty seconds pass; every rate-limit key (EX 1) has expired
Tick ==
  /\ now + 20 <= MaxTime
  /\ now' = now + 20
  /\ rateTokens' = {}
  /\ UNCHANGED <<hot, hotExpireAt, hotBids, activeIdx, cold, coldBids, req,
                 persistQ, updateQ, finalJob, bus, commits, finalSnap,
                 overwrites, faults, dayJumps, room, cursor,
                 replied, emitted, first,
                 sockets, msgs,
                 bidsExpireAt, listenerJobs>>

\* the retention window passes while the system is at rest: no placeBid
\* call in flight, no job waiting or running
TickDay ==
  /\ dayJumps < MaxDayJumps
  /\ \A r \in Reqs : req[r].pc \in {"idle", "done", "crashed"}
  /\ persistQ = {} /\ updateQ = {}
  /\ finalJob.state \in {"completed", "failed"}
  /\ now' = now + retentionSec
  /\ rateTokens' = {}
  /\ dayJumps' = dayJumps + 1
  /\ UNCHANGED <<hot, hotExpireAt, hotBids, activeIdx, cold, coldBids, req,
                 persistQ, updateQ, finalJob, bus, commits, finalSnap,
                 overwrites, faults, room, cursor, replied,
                 emitted, first,
                 sockets, msgs,
                 bidsExpireAt, listenerJobs>>

\* ------------------------------------------------------- Socket.io rooms
\* event ev goes out to the sockets of the set to: it is the first event
\* of those that were sent nothing before
FirstSent(f, to, ev) ==
  [c \in Conns |-> IF c \in to /\ f[c] = "" THEN ev ELSE f[c]]

\* socket.emit: the socket itself
SocketRecipients(c) == {c}

\* io.emit instead of io.to(roomName).emit: every socket
RoomRecipients_C19m(rm) == Conns

\* io.to(roomName).emit: the sockets that are in the room at that moment
RoomRecipients(rm) == rm

\* the events the subscriber callbacks emit for a message of the bus
RoomEvents(m) ==
  IF m.type = "ended" THEN {"AUCTION_ENDED"}
  ELSE IF m.extended THEN {"UPDATE_BID", "AUCTION_EXTENDED"}
  ELSE {"UPDATE_BID"}

\* Set.prototype.delete: a string is found by value, an array only by
\* identity, and the array of a payload is a new object
SetDelete(set, v) == IF v = "text" THEN set \ {v} ELSE set

\* auction:join with auctionId v (either form gives the same room name
\* `auction:${auctionId}`): socket.join, joinedAuctions.add, the
\* confirmation to the socket and the notice to the others in the room
JoinAuction(c, v) ==
  /\ sockets[c].connected
  /\ room' = room \cup {c}
  /\ sockets' = [sockets EXCEPT ![c].joinedAuctions = @ \cup {v}]
  /\ first' = FirstSent(FirstSent(first, SocketRecipients(c),
                                  "auction:joined"),
                        room \ {c}, "auction:viewer_joined")
  /\ UNCHANGED <<now, hot, hotExpireAt, hotBids, activeIdx, rateTokens, cold,
                 coldBids, req, persistQ, updateQ, finalJob, bus, commits,
                 finalSnap, overwrites, faults, dayJumps, cursor, replied,
                 emitted, msgs,
                 bidsExpireAt, listenerJobs>>

\* auction:leave with auctionId v: socket.leave, joinedAuctions.delete
LeaveAuction(c, v) ==
  /\ sockets[c].connected
  /\ room' = room \ {c}
  /\ sockets' = [sockets EXCEPT
                   ![c].joinedAuctions = SetDelete(@, v)]
  /\ first' = FirstSent(FirstSent(first, SocketRecipients(c), "auction:left"),
                        room \ {c}, "auction:viewer_left")
  /\ UNCHANGED <<now, hot, hotExpireAt, hotBids, activeIdx, rateTokens, cold,
                 coldBids, req, persistQ, updateQ, finalJob, bus, commits,
                 finalSnap, overwrites, faults, dayJumps, cursor, replied,
                 emitted, msgs,
                 bidsExpireAt, listenerJobs>>

\* the disconnect of the socket: Socket.io takes it out of its rooms, then
\* the handler notifies the room of every entry of joinedAuctions, which
\* it leaves as it is
Disconnect(c) ==
  /\ sockets[c].connected
  /\ sockets' = [sockets EXCEPT ![c].connected = FALSE]
  /\ room' = room \ {c}
  /\ first' = IF sockets[c].joinedAuctions = {} THEN first
              ELSE FirstSent(first, room \ {c}, "auction:viewer_left")
  /\ UNCHANGED <<now, hot, hotExpireAt, hotBids, activeIdx, rateTokens, cold,
                 coldBids, req, persistQ, updateQ, finalJob, bus, commits,
                 finalSnap, overwrites, faults, dayJumps, cursor, replied,
                 emitted, msgs,
                 bidsExpireAt, listenerJobs>>

\* the user connects again: a new socket, with a new joinedAuctions set
Connect(c) ==
  /\ ~sockets[c].connected
  /\ sockets' = [sockets EXCEPT ![c] = NewSocket]
  /\ UNCHANGED <<now, hot, hotExpireAt, hotBids, activeIdx, rateTokens, cold,
                 coldBids, req, persistQ, updateQ, finalJob, bus, commits,
                 finalSnap, overwrites, faults, dayJumps, room, cursor,
                 replied, emitted, first, msgs,
                 bidsExpireAt, listenerJobs>>

\* the BID_PLACED handler after placeBid is over (or after its own input
\* checks): socket.emit of BID_ACCEPTED or BID_REJECTED
EmitReply(r) ==
  /\ req[r].pc = "done" /\ r \notin replied
  /\ replied' = replied \cup {r}
  /\ emitted' = [events |-> {HandlerReply(req[r]).event}, r |-> r,
                 to |-> SocketRecipients(req[r].bidder), room |-> room]
  /\ first' = FirstSent(first, SocketRecipients(req[r].bidder),
                        HandlerReply(req[r]).event)
  /\ UNCHANGED <<now, hot, hotExpireAt, hotBids, activeIdx, rateTokens, cold,
                 coldBids, req, persistQ, updateQ, finalJob, bus, commits,
                 finalSnap, overwrites, faults, dayJumps, room, cursor,
                 sockets, msgs,
                 bidsExpireAt, listenerJobs>>

\* initializeBidSubscriptions: the callback of auction:bid_placed or of
\* auction:ended runs for the next message of the bus
DeliverBus ==
  /\ cursor < Len(bus)
  /\ cursor' = cursor + 1
  /\ emitted' = [events |-> RoomEvents(bus[cursor + 1]),
                 r |-> bus[cursor + 1].r,
                 to |-> RoomRecipients(room), room |-> room]
  /\ first' = FirstSent(first, RoomRecipients(room),
                        IF bus[cursor + 1].type = "ended"
                        THEN "AUCTION_ENDED" ELSE "UPDATE_BID")
  /\ UNCHANGED <<now, hot, hotExpireAt, hotBids, activeIdx, rateTokens, cold,
                 coldBids, req, persistQ, updateQ, finalJob, bus, commits,
                 finalSnap, overwrites, faults, dayJumps, room, replied,
                 sockets, msgs,
                 bidsExpireAt, listenerJobs>>

\* The bids a behaviour submits: call 1 before call 2, the first bidder is
\* not "u2" (the two are interchangeable), the seller bids one amount and
\* the invalid amount comes from "u1".
Inputs(r) ==
  {ba \in Bidders \X Amounts :
     /\ ba[1] = Seller => ba[2] = 105
     /\ ba[2] <= 0 => ba[1] = "u1"
     /\ IF r = 1 THEN ba[1] # "u2" ELSE req[1].pc # "idle"}

Next ==
  \/ \E r \in Reqs : \E ba \in Inputs(r) : Submit(r, ba[1], ba[2])
  \/ \E r \in Reqs : PlaceBid(r)
  \/ \E r \in Reqs : FindAuction(r)
  \/ \E r \in Reqs : LoadAuction(r)
  \/ \E r \in Reqs : RetryBid(r)
  \/ \E r \in Reqs : ExtendAuction(r)
  \/ \E r \in Reqs : ExtendAuctionFail(r)
  \/ \E j \in persistQ : processBidPersistence(j)
  \/ \E j \in persistQ : processBidPersistenceFail(j)
  \/ \E j \in updateQ : processAuctionUpdate(j)
  \/ processAuctionFinalization
  \/ \E at \in {"mirror", "publish"} : processAuctionFinalizationFail(at)
  \/ RemoveRetainedJob
  \/ ExpireKey
  \/ \E added \in BOOLEAN : ExpireBidsKey(added)
  \/ Evict
  \/ startServer
  \/ Tick
  \/ TickDay

Spec == Init /\ [][Next]_vars

\* The delivery of events to sockets: u1 bids 100 and u2 bids 105 on the
\* healthy system while sockets join and leave the room.
RoomInputs(r) ==
  {ba \in {<<"u1", 100>>, <<"u2", 105>>} :
     IF r = 1 THEN ba[1] = "u1" ELSE req[1].pc # "idle" /\ ba[1] = "u2"}

NextRooms ==
  \/ \E r \in Reqs : \E ba \in RoomInputs(r) : Submit(r, ba[1], ba[2])
  \/ \E r \in Reqs : PlaceBid(r)
  \/ \E r \in Reqs : ExtendAuction(r)
  \/ processAuctionFinalization
  \/ Tick
  \/ \E c \in Conns : JoinAuction(c, "text")
  \/ \E c \in Conns : LeaveAuction(c, "text")
  \/ \E r \in Reqs : EmitReply(r)
  \/ DeliverBus

SpecRooms == Init /\ [][NextRooms]_vars

\* The administrative cancellation of an active auction, which the
\* program itself does not contain: the status of the cold row becomes
\* cancelled, and so does that of the hot record when inHot
CancelAuction(inHot) ==
  /\ cold.status = "active"
  /\ cold' = [cold EXCEPT !.status = "cancelled"]
  /\ hot' = IF inHot /\ hot.exists /\ hot.status = "active"
            THEN [hot EXCEPT !.status = "cancelled"] ELSE hot
  /\ UNCHANGED <<now, hotExpireAt, hotBids, activeIdx, rateTokens, coldBids,
                 req, persistQ, updateQ, finalJob, bus, commits, finalSnap,
                 overwrites, faults, dayJumps, room, cursor, replied,
                 emitted, first,
                 sockets, msgs,
                 bidsExpireAt, listenerJobs>>

\* The auction with a cancellation at some moment: bids, the loss of the
\* hot record and its hydration, the finalization job.
NextCancelled ==
  \/ \E r \in Reqs : \E ba \in RoomInputs(r) : Submit(r, ba[1], ba[2])
  \/ \E r \in Reqs : PlaceBid(r)
  \/ \E r \in Reqs : FindAuction(r)
  \/ \E r \in Reqs : LoadAuction(r)
  \/ \E r \in Reqs : RetryBid(r)
  \/ \E r \in Reqs : ExtendAuction(r)
  \/ \E j \in persistQ : processBidPersistence(j)
  \/ processAuctionFinalization
  \/ Evict
  \/ Tick
  \/ \E inHot \in BOOLEAN : CancelAuction(inHot)

SpecCancelled == Init /\ [][NextCancelled]_vars

\* Bids on an auction that has no record in the hot store: its row is in
\* the cold store (the key was evicted) or the id is unknown there as well.
InitMiss ==
  /\ now = 980
  /\ cold \in {InitialRow, NoRecord}
  /\ hot = NoRecord
  /\ hotExpireAt = NoTime
  /\ hotBids = {}
  /\ activeIdx = NoTime
  /\ rateTokens = {}
  /\ coldBids = <<>>
  /\ req = [r \in Reqs |-> IdleReq]
  /\ persistQ = {}
  /\ updateQ = {}
  /\ finalJob = IF cold.exists
                THEN [NoJob EXCEPT !.state = "delayed",
                                   !.runAt = InitialRow.end_time]
                ELSE NoJob
  /\ bus = <<>>
  /\ commits = <<>>
  /\ finalSnap = NoRecord
  /\ overwrites = 0
  /\ faults = 0
  /\ dayJumps = 0
  /\ room = {}
  /\ cursor = 0
  /\ replied = {}
  /\ emitted = NoEmit
  /\ first = [c \in Conns |-> ""]
  /\ sockets = [c \in Conns |-> NewSocket]
  /\ bidsExpireAt = NoTime
  /\ listenerJobs = {}
  /\ msgs = [r \in Reqs |-> NoMsg]

NextMiss ==
  \/ \E r \in Reqs : \E b \in Bidders : Submit(r, b, 105)
  \/ \E r \in Reqs : PlaceBid(r)
  \/ \E r \in Reqs : FindAuction(r)
  \/ \E r \in Reqs : LoadAuction(r)
  \/ \E r \in Reqs : RetryBid(r)
  \/ \E r \in Reqs : ExtendAuction(r)
  \/ Tick

SpecMiss == InitMiss /\ [][NextMiss]_vars

\* The gateway: sockets join and leave the room with either form of the
\* auctionId, disconnect and connect again, while connected users bid.
NextGateway ==
  \/ \E r \in Reqs : \E ba \in RoomInputs(r) :
        sockets[ba[1]].connected /\ Submit(r, ba[1], ba[2])
  \/ \E r \in Reqs : PlaceBid(r)
  \/ \E r \in Reqs : ExtendAuction(r)
  \/ DeliverBus
  \/ \E c \in Conns : \E v \in Payloads : JoinAuction(c, v)
  \/ \E c \in Conns : \E v \in Payloads : LeaveAuction(c, v)
  \/ \E c \in Conns : Disconnect(c)
  \/ \E c \in Conns : Connect(c)

SpecGateway == Init /\ [][NextGateway]_vars

\* the BID_PLACED handler of call r has returned; the slot takes the next
\* message
NextMessage(r) ==
  /\ req[r].pc = "done"
  /\ req' = [req EXCEPT ![r] = IdleReq]
  /\ msgs' = [msgs EXCEPT ![r] = NoMsg]
  /\ UNCHANGED <<now, hot, hotExpireAt, hotBids, activeIdx, rateTokens, cold,
                 coldBids, persistQ, updateQ, finalJob, bus, commits,
                 finalSnap, overwrites, faults, dayJumps, room, cursor,
                 replied, emitted, first, sockets,
                 bidsExpireAt, listenerJobs>>

\* five seconds pass
TickLate ==
  /\ now + 5 <= MaxLateTime
  /\ now' = now + 5
  /\ rateTokens' = {}
  /\ UNCHANGED <<hot, hotExpireAt, hotBids, activeIdx, cold, coldBids, req,
                 persistQ, updateQ, finalJob, bus, commits, finalSnap,
                 overwrites, faults, dayJumps, room, cursor, replied,
                 emitted, first, sockets, msgs,
                 bidsExpireAt, listenerJobs>>

\* Late bidding on the healthy system: u1 and u2 bid the minimum bid in
\* turn in the last seconds before the end, one message after the other,
\* while the finalization job scheduled
\* at creation makes its attempts (the persistence workers are left out).
NextLate ==
  \/ /\ Len(commits) < MaxLateBids
     /\ hot.exists /\ hot.end_time - now <= SnipeWindow
     /\ Submit(1, IF hot.highest_bidder_id = "u1" THEN "u2" ELSE "u1",
               MinimumBid(hot, 0))
  \/ PlaceBid(1)
  \/ ExtendAuction(1)
  \/ NextMessage(1)
  \/ processAuctionFinalization
  \/ TickLate

SpecLate == Init /\ [][NextLate]_vars

\* the timestamp field a client may put into its message: none, a moment
\* long before the auction, a moment after its end
ClientTimestamps == {NoTime, 0, 2000}

\* Messages with client-supplied identity and timestamp fields: the
\* sockets of u1 and u2 send BID_PLACED with any userId and timestamp in
\* the payload; call 1 bids 100 and call 2 bids 105.
NextIdentity ==
  \/ \E r \in Reqs : \E c \in Conns : \E u \in Bidders :
        \E ts \in ClientTimestamps :
          BidPlaced(r, c, [amount |-> IF r = 1 THEN 100 ELSE 105,
                           userId |-> u, timestamp |-> ts])
  \/ \E r \in Reqs : PlaceBid(r)
  \/ \E r \in Reqs : ExtendAuction(r)
  \/ \E j \in persistQ : processBidPersistence(j)
  \/ Tick

SpecIdentity == Init /\ [][NextIdentity]_vars

\* The place-bid script on amounts with cents: an auction with starting
\* price 1.10 and an increment drawn from MoneyIncrements receives the bids
\* of u1 and then of u2, with amounts drawn from MoneyAmounts (in cents).
MoneyIncrements == {5, 20, 100, 220}
MoneyAmounts == {109, 110, 114, 115, 129, 130, 209, 210, 329, 330}

MoneyRow(inc) ==
  [InitialRow EXCEPT !.starting_price = 110, !.bid_increment = inc]

InitMoney ==
  /\ now = 980
  /\ \E inc \in MoneyIncrements :
       /\ cold = MoneyRow(inc)
       /\ hot = HydratedRecord(MoneyRow(inc))
  /\ hotExpireAt = InitialRow.end_time + retentionSec
  /\ hotBids = {}
  /\ activeIdx = InitialRow.end_time
  /\ rateTokens = {}
  /\ coldBids = <<>>
  /\ req = [r \in Reqs |-> IdleReq]
  /\ persistQ = {}
  /\ updateQ = {}
  /\ finalJob = [NoJob EXCEPT !.state = "delayed",
                              !.runAt = InitialRow.end_time]
  /\ bus = <<>>
  /\ commits = <<>>
  /\ finalSnap = NoRecord
  /\ overwrites = 0
  /\ faults = 0
  /\ dayJumps = 0
  /\ room = {}
  /\ cursor = 0
  /\ replied = {}
  /\ emitted = NoEmit
  /\ first = [c \in Conns |-> ""]
  /\ sockets = [c \in Conns |-> NewSocket]
  /\ bidsExpireAt = NoTime
  /\ listenerJobs = {}
  /\ msgs = [r \in Reqs |-> NoMsg]

\* one atomic execution of place-bid.lua for call r on amounts with cents,
\* with the empty increment hint; the call is over with the script's reply
PlaceBidCents(r) ==
  LET q == req[r]
      s == PlaceBidStatusCents(hot, q.amount, q.bidder, q.time, 0)
  IN
  /\ q.pc = "p1"
  /\ IF ScriptWrites(s)
     THEN /\ hot' = PlaceBidUpdate(hot, q.amount, q.bidder)
          /\ hotBids' = hotBids \cup
                {[bidder_id |-> q.bidder, amount |-> q.amount,
                  time |-> q.time, previous_bid |-> hot.current_bid]}
          /\ bidsExpireAt' = hot.end_time + retentionSec
     ELSE UNCHANGED <<hot, hotBids, bidsExpireAt>>
  /\ req' = [req EXCEPT ![r] = [@ EXCEPT !.pc = "done", !.status = s,
                        !.code = IF s = 1 THEN "OK" ELSE getErrorCode(s)]]
  /\ UNCHANGED <<now, hotExpireAt, activeIdx, rateTokens, cold, coldBids,
                 persistQ, updateQ, finalJob, bus, commits, finalSnap,
                 overwrites, faults, dayJumps, room, cursor, replied,
                 emitted, first,
                 sockets, msgs, listenerJobs>>

MoneyInputs(r) ==
  {ba \in {"u1", "u2"} \X MoneyAmounts :
     IF r = 1 THEN ba[1] = "u1" ELSE req[1].pc = "done" /\ ba[1] = "u2"}

NextMoney ==
  \/ \E r \in Reqs : \E ba \in MoneyInputs(r) : Submit(r, ba[1], ba[2])
  \/ \E r \in Reqs : PlaceBidCents(r)

SpecMoney == InitMoney /\ [][NextMoney]_vars

\* ============================================================ properties
\* no placeBid call in flight, every queue drained, the finalization job
\* finished
AtRest ==
  /\ \A r \in Reqs : req[r].pc \in {"idle", "done", "crashed"}
  /\ persistQ = {} /\ updateQ = {}
  /\ finalJob.state \in {"completed", "failed"}

EndedEvents == SelectSeq(bus, LAMBDA m : m.type = "ended")

\* call r was accepted inside the extension window of the end time the
\* script saw
Late(r) ==
  /\ req[r].status = 1
  /\ req[r].seen.end_time - req[r].time <= extensionThreshold

\* C1: in commit order the accepted amounts of the auction strictly
\* increase, each at least the previous amount plus the bid increment,
\* whatever evictions and hydrations happen in between.
C1_MonotonicPrice ==
  \A i \in 2..Len(commits) :
    /\ commits[i].amount > commits[i - 1].amount
    /\ commits[i].amount >= commits[i - 1].amount + commits[i - 1].bid_increment

\* C2 (exactly one winner): when a bid is accepted while another bidder's
\* bid of the same amount waits for the script and would be accepted on
\* the same record, that other bid is never accepted too.
C2_OneWinner ==
  \A r \in Reqs : \A o \in req[r].rivals :
    (req[o].amount = req[r].amount /\ req[o].bidder # req[r].bidder)
      => req[o].status # 1

\* C3: once the finalize script has committed and the finalization job is
\* finished, exactly one AUCTION_ENDED has been published, and its winner
\* and winning bid are the hot values at the commit.
C3_ExactlyOneEnded ==
  (finalSnap.exists /\ finalJob.state \in {"completed", "failed"})
    => /\ Len(EndedEvents) = 1
       /\ EndedEvents[1].bidder = finalSnap.highest_bidder_id
       /\ EndedEvents[1].amount = finalSnap.current_bid

\* C4 (as stated): an accepted bid has serverTime < endTime at commit, and
\* a bid whose serverTime equals the end time of the record the script
\* finds is rejected with AUCTION_ENDED.
C4_AsStated ==
  /\ \A i \in 1..Len(commits) : commits[i].time < commits[i].end_time
  /\ \A r \in Reqs :
       (req[r].pc = "done" /\ req[r].seen.exists
          /\ req[r].time = req[r].seen.end_time)
         => req[r].code = "AUCTION_ENDED"

\* C4 (amended): an accepted bid has serverTime < endTime at commit; a bid
\* whose serverTime equals the end time is never accepted, and it is
\* rejected with AUCTION_ENDED when the script finds the record active.
C4_NoPostEndBids ==
  /\ \A i \in 1..Len(commits) : commits[i].time < commits[i].end_time
  /\ \A r \in Reqs :
       (req[r].seen.exists /\ req[r].time = req[r].seen.end_time)
         => /\ req[r].status # 1
            /\ (req[r].pc = "done" /\ req[r].seen.active)
                 => req[r].code = "AUCTION_ENDED"

\* a bid stamped with the end time itself met the active record and was
\* turned down
C4_Witness ==
  \E r \in Reqs :
    /\ req[r].pc = "done" /\ req[r].seen.exists /\ req[r].seen.active
    /\ req[r].time = req[r].seen.end_time
    /\ req[r].code = "AUCTION_ENDED"

\* C5: every accepted bid has a bidder other than the seller, and the
\* highest bidder of the auction, hot or cold, is never its seller.
C5_NoSelfBid ==
  /\ \A i \in 1..Len(commits) : commits[i].bidder # commits[i].seller_id
  /\ hot.exists => hot.highest_bidder_id # hot.seller_id
  /\ cold.highest_bidder_id # cold.seller_id
  /\ \A r \in Reqs : req[r].bidder = Seller => req[r].status # 1

\* the seller's bid reached the script on an open auction and was turned
\* down, after another bidder's was accepted
C5_Witness ==
  /\ \E r \in Reqs : /\ req[r].bidder = Seller /\ req[r].pc = "done"
                     /\ req[r].code = "SELLER_CANNOT_BID"
  /\ Len(commits) > 0

\* C6: hydration is put-if-absent: a hydration never replaces a hot record
\* that already exists by another one.
C6_PutIfAbsent == overwrites = 0

\* C7 (endTime never decreases): no step of a placeBid call makes the end
\* time of the hot record smaller.
C7_EndTimeNeverDecreases ==
  [][(hot.exists /\ hot'.exists) => hot'.end_time >= hot.end_time]_vars

\* C8: for a bid accepted inside the extension window, once its admission
\* has completed the end time of the auction is at least serverTime +
\* duration - threshold.
C8_ExtensionBound ==
  \A r \in Reqs :
    (Late(r) /\ req[r].pc = "done" /\ hot.exists)
      => hot.end_time >= req[r].time + extensionDuration - extensionThreshold

\* a late bid was admitted and extended the auction
C8_Witness ==
  \E r \in Reqs :
    /\ Late(r) /\ req[r].pc = "done" /\ req[r].extended
    /\ hot.exists /\ hot.end_time = req[r].seen.end_time + extensionDuration

\* C9: once the jobs are drained after the finalize script committed, the
\* cold row is ended and carries the hot values of the commit.
C9_ColdConverges ==
  (AtRest /\ finalSnap.exists /\ finalSnap.total_bids > 0)
    => /\ cold.status = "ended"
       /\ cold.current_bid = finalSnap.current_bid
       /\ cold.highest_bidder_id = finalSnap.highest_bidder_id
       /\ cold.total_bids = finalSnap.total_bids

\* C10: once the jobs are drained, the totalBids of the cold auction row
\* is the number of its rows in the bids table.
C10_TotalBidsIsRowCount ==
  AtRest => cold.total_bids = Len(coldBids)

\* C11: delivering a persist-bid job again (a retry after a partial
\* failure) leaves the bids table as the first delivery left it: the
\* step that processes a job delivered before inserts no row.
C11_RedeliveryIdempotent ==
  [][\A j \in persistQ :
       (j.attempts > 0 /\ j \notin persistQ') => coldBids' = coldBids]_vars

\* the position in commit order of the bid of call r
CommitPos(r) == CHOOSE i \in DOMAIN commits : commits[i].r = r

\* C12: the bid-placed events of the auction are on the bus (and so reach
\* every subscriber) in the order in which the place-bid script committed
\* their bids, also for bids processed concurrently.
C12_EventsInCommitOrder ==
  \A i, j \in DOMAIN bus :
    (i < j /\ bus[i].type = "bid_placed" /\ bus[j].type = "bid_placed")
      => CommitPos(bus[i].r) < CommitPos(bus[j].r)

\* the calls that left a trace outside the hot store: an event on the bus,
\* a queued job or a row of the bids table
Traced ==
  {bus[i].r : i \in {k \in DOMAIN bus : bus[k].type = "bid_placed"}}
    \cup {j.r : j \in persistQ} \cup {j.r : j \in updateQ}
    \cup {coldBids[i].r : i \in DOMAIN coldBids}

\* C13: a bid-placed event, a persist-bid job and an auction-update job
\* exist only for a bid the place-bid script answered with OK; a rejected,
\* rate-limited or invalid bid has no event and no job.
C13_NothingBeforeOK ==
  /\ \A r \in Traced : req[r].status = 1
  /\ \A r \in Reqs :
       (req[r].pc = "done" /\ req[r].code # "OK" /\ req[r].status # 1)
         => r \notin Traced

\* one bid was turned down as too low while another one was published
C13_Witness ==
  /\ \E r \in Reqs : req[r].pc = "done" /\ req[r].code = "BID_TOO_LOW"
  /\ \E r \in Reqs : req[r].pc = "done" /\ req[r].code = "OK" /\ r \in Traced

Published == {bus[i].r : i \in {k \in DOMAIN bus : bus[k].type = "bid_placed"}}

\* C15: a bid the place-bid script answered with OK is published, and its
\* bidder is never sent BID_REJECTED for it, also when a later step of the
\* admission fails.
C15_NoPartialAccept ==
  \A r \in Reqs :
    (req[r].status = 1 /\ req[r].pc = "done")
      => /\ r \in Published
         /\ HandlerReply(req[r]).event # "BID_REJECTED"

\* C16: a bid that fails the rate gate is answered with
\* RATE_LIMIT_EXCEEDED, and the step leaves the hot store, the job queues
\* and the bus as they were.
C16_RateGate ==
  [][\A r \in Reqs :
       (req[r].pc = "idle" /\ req'[r].pc = "done"
          /\ req'[r].code = "RATE_LIMIT_EXCEEDED")
         => /\ HandlerReply(req'[r]).code = "RATE_LIMIT_EXCEEDED"
            /\ UNCHANGED <<hot, hotBids, hotExpireAt, activeIdx, persistQ,
                           updateQ, finalJob, bus>>]_vars

\* C17: when the admission of an accepted bid extends the auction, the
\* finalization job is afterwards scheduled to run at the new end time.
C17_RescheduledAtNewEnd ==
  [][\A r \in Reqs :
       (req[r].pc = "extend" /\ req'[r].pc = "done" /\ req'[r].extended)
         => /\ finalJob'.state = "delayed"
            /\ finalJob'.runAt = hot'.end_time]_vars

\* the step is a restart of the server that killed a call in flight
Restarted ==
  \E r \in Reqs : req[r].pc # "crashed" /\ req'[r].pc = "crashed"

\* C18: after a restart of the server an auction that is active in the
\* cold store and has not reached its end is in the hot store again, with
\* a finalization job waiting for it.
C18_StartupRecovery ==
  [][(Restarted /\ cold.status = "active" /\ now < cold.end_time)
       => (hot'.exists /\ finalJob'.state = "delayed")]_vars

\* C19: BID_ACCEPTED and BID_REJECTED go to the socket that sent the bid and
\* to no other; UPDATE_BID, AUCTION_EXTENDED and AUCTION_ENDED go to every
\* socket that is in the room of the auction when they are emitted, the
\* bidder's own socket included, and to no socket outside the room.
RoomEventNames == {"UPDATE_BID", "AUCTION_EXTENDED", "AUCTION_ENDED"}
C19_Delivery ==
  /\ (emitted.events # {} /\ emitted.events \subseteq
         {"BID_ACCEPTED", "BID_REJECTED"})
       => emitted.to = {req[emitted.r].bidder}
  /\ (emitted.events \cap RoomEventNames # {})
       => (emitted.events \subseteq RoomEventNames
           /\ emitted.to = emitted.room)
C19_Witness ==
  /\ replied # {}
  /\ emitted.events = {"UPDATE_BID", "AUCTION_EXTENDED"}
  /\ req[emitted.r].bidder \in emitted.to
  /\ emitted.room # Conns

\* C20: every BID_REJECTED sent to a client carries a code of the closed
\* set, and the code names the cause: RATE_LIMIT_EXCEEDED for a bid that
\* failed the rate gate, INVALID_BID_AMOUNT for a non-positive amount.
C20_ErrorCodes ==
  \A r \in Reqs :
    (req[r].pc = "done" /\ HandlerReply(req[r]).event = "BID_REJECTED")
      => /\ HandlerReply(req[r]).code \in
              {"BID_TOO_LOW", "AUCTION_ENDED", "AUCTION_NOT_FOUND",
               "AUCTION_NOT_ACTIVE", "SELLER_CANNOT_BID",
               "INVALID_BID_AMOUNT", "RATE_LIMIT_EXCEEDED", "INVALID_INPUT"}
         /\ req[r].code = "RATE_LIMIT_EXCEEDED"
              => HandlerReply(req[r]).code = "RATE_LIMIT_EXCEEDED"
         /\ req[r].amount < 0
              => HandlerReply(req[r]).code = "INVALID_BID_AMOUNT"

\* the step is a run of the place-bid script for call r
ScriptRan(r) ==
  /\ req[r].pc \in {"p1", "retry"}
  /\ req'[r].pc # req[r].pc

\* C21: a run of the place-bid script that returns a status other than OK
\* leaves the auction record, its bid history and the active-auctions
\* index as they were.
C21_RejectionChangesNothing ==
  [][\A r \in Reqs :
       (ScriptRan(r) /\ req'[r].pc # "crashed" /\ req'[r].status # 1)
         => UNCHANGED <<hot, hotBids, activeIdx, hotExpireAt>>]_vars

\* a bid was turned down as too low after another one was accepted
C21_Witness ==
  /\ \E r \in Reqs : req[r].pc = "done" /\ req[r].status = 0
  /\ hot.exists /\ hot.total_bids = 1 /\ Cardinality(hotBids) = 1

\* C22: when the finalize script has committed an auction without bids and
\* the finalization job is finished, an AUCTION_ENDED event without winner
\* and winning bid and with totalBids 0 has been published (on a system
\* without infrastructure faults).
C22_NoBidEnded ==
  (finalSnap.exists /\ finalSnap.total_bids = 0 /\ faults = 0
     /\ finalJob.state \in {"completed", "failed"})
    => \E i \in DOMAIN bus :
         /\ bus[i].type = "ended"
         /\ bus[i].bidder = "" /\ bus[i].amount = Null
         /\ bus[i].totalBids = 0

\* C23: the first event the server sends to a socket after its
\* authentication is SERVER_TIME.
C23_ServerTimeFirst ==
  \A c \in Conns : first[c] \in {"", "SERVER_TIME"}

\* the step is a run of the place-bid script for call r that got past the
\* checks before the minimum bid
PastEarlierChecks(r) ==
  /\ req[r].pc = "p1" /\ req'[r].pc = "done"
  /\ req'[r].status \in {0, 1}

\* C24: a bid that passed the earlier checks is accepted if and only if
\* its amount is at least the minimum bid, computed on exact decimals: the
\* starting price for the first bid, currentBid + bidIncrement afterwards.
C24_MinimumBid ==
  [][\A r \in Reqs :
       PastEarlierChecks(r)
         => (req'[r].status = 1 <=> req[r].amount >= MinimumBid(hot, 0))]_vars

\* the reference ordering of the preconditions of placeBid, on exact
\* decimal amounts and with the stored increment
ReferenceStatus(h, amount, bidder, time) ==
  CASE ~h.exists -> 0 - 2
    [] h.exists /\ amount <= 0 -> 0 - 5
    [] h.exists /\ amount > 0 /\ h.status # "active" -> 0 - 3
    [] h.exists /\ amount > 0 /\ h.status = "active"
         /\ time >= h.end_time -> 0 - 1
    [] h.exists /\ amount > 0 /\ h.status = "active"
         /\ time < h.end_time /\ bidder = h.seller_id -> 0 - 4
    [] h.exists /\ amount > 0 /\ h.status = "active"
         /\ time < h.end_time /\ bidder # h.seller_id
         /\ amount < MinimumBid(h, 0) -> 0
    [] OTHER -> 1

\* C25: every run of the place-bid script returns the status of the
\* reference ordering NOT_FOUND, INVALID_AMOUNT, NOT_ACTIVE, ENDED,
\* SELLER_CANNOT_BID, TOO_LOW, OK for its input and the record it finds.
C25_CheckOrder ==
  [][\A r \in Reqs :
       (req[r].pc = "p1" /\ req'[r].pc = "done")
         => req'[r].status = ReferenceStatus(hot, req[r].amount,
                                             req[r].bidder, req[r].time)]_vars

\* the step is a run of the extend-auction script for call r
ExtendRan(r) == req[r].pc = "extend" /\ req'[r].pc = "done"

\* C26: a run of the extend-auction script on an active auction extends
\* if and only if 0 < endTime - serverTime <= threshold; then the end time
\* becomes the old end time + duration, the score of the active index is
\* the new end time and nothing else of the record changes; otherwise the
\* record, its index entry and its expiry stay as they were.
C26_ExtendExactly ==
  [][\A r \in Reqs :
       (ExtendRan(r) /\ hot.exists /\ hot.status = "active")
         => IF /\ 0 < hot.end_time - req[r].time
               /\ hot.end_time - req[r].time <= extensionThreshold
            THEN /\ req'[r].extended
                 /\ hot' = [hot EXCEPT !.end_time = @ + extensionDuration]
                 /\ activeIdx' = hot'.end_time
                 /\ hotBids' = hotBids
            ELSE /\ ~req'[r].extended
                 /\ UNCHANGED <<hot, activeIdx, hotExpireAt, hotBids>>]_vars

\* one accepted bid extended the auction, and one placed exactly threshold
\* seconds before the end did too
C26_Witness ==
  /\ \E r \in Reqs :
       /\ req[r].pc = "done" /\ req[r].extended
       /\ req[r].seen.end_time - req[r].time = extensionThreshold
  /\ \E r \in Reqs :
       /\ req[r].pc = "done" /\ req[r].extended
       /\ req[r].seen.end_time - req[r].time < extensionThreshold

\* the step is an attempt of the finalization job, which runs the
\* finalize script once on the present record at the present time
FinalizeRan == finalJob.state = "delayed" /\ finalJob' # finalJob

Cancelled == cold.status = "active" /\ cold'.status = "cancelled"

\* C28: the hot record leaves status active only by a finalize call that
\* sets it to ended (or by its cancellation), and a cancelled auction is
\* terminal: no step changes the status cancelled of the hot record or of
\* the cold row, a bid on the cancelled record is answered NOT_ACTIVE and
\* is not followed by an extension.
C28_CancelledIsTerminal ==
  [][/\ ((hot.exists /\ hot.status = "active" /\ hot'.exists
            /\ hot'.status # "active")
          => ((FinalizeRan /\ hot'.status = "ended") \/ Cancelled))
     /\ ((hot.exists /\ hot.status = "cancelled" /\ hot'.exists)
          => hot'.status = "cancelled")
     /\ (cold.status = "cancelled" => cold'.status = "cancelled")
     /\ \A r \in Reqs :
           (ScriptRan(r) /\ hot.exists /\ hot.status = "cancelled")
             => (req'[r].pc = "done"
                 /\ req'[r].code = "AUCTION_NOT_ACTIVE")]_vars

\* the one reply the BID_PLACED handler emits for a miss that stays a miss
NotFoundReply == [event |-> "BID_REJECTED", code |-> "AUCTION_NOT_FOUND"]

\* C29: a NOT_FOUND answer of the first script run leads to the lookup in
\* the cold store; when the row is absent there the call is over and the
\* bidder is answered AUCTION_NOT_FOUND, otherwise the record is hydrated
\* and the script retried once, and a NOT_FOUND answer of the retry ends
\* the call with AUCTION_NOT_FOUND as well; nothing is retried after it.
C29_RetryOnce ==
  [][\A r \in Reqs :
       /\ (req[r].pc = "p1" /\ req'[r].pc # "p1"
             /\ req'[r].status = 0 - 2)
           => req'[r].pc = "find"
       /\ (req[r].pc = "find" /\ req'[r].pc # "find")
           => IF cold.exists THEN req'[r].pc = "load"
              ELSE (req'[r].pc = "done"
                    /\ HandlerReply(req'[r]) = NotFoundReply)
       /\ (req[r].pc = "load" /\ req'[r].pc # "load")
           => req'[r].pc = "retry"
       /\ (req[r].pc = "retry" /\ req'[r].pc # "retry")
           => (req'[r].pc \in {"done", "extend"}
               /\ (req'[r].status = 0 - 2
                    => (req'[r].pc = "done"
                        /\ HandlerReply(req'[r]) = NotFoundReply)))
       /\ req[r].pc = "done" => req'[r].pc = "done"]_vars

\* the step is a mirror write of a persist-bid or update-auction-mirror job
MirrorWrite == persistQ' # persistQ \/ updateQ' # updateQ

\* C30: a mirror write of a persist-bid or update-auction-mirror job made
\* when the cold row has status ended leaves the row as it is (stated for
\* the runs without a fault).
C30_EndedRowKept ==
  [][(MirrorWrite /\ cold.status = "ended" /\ faults = 0)
      => cold' = cold]_vars

\* C31: the update-auction-mirror job of an extension carries the new
\* endTime, and the step that processes it sets the end_time of the cold
\* row to that value and leaves current_bid, highest_bidder_id and
\* total_bids of the row as they were.
C31_MirrorSetsEndTime ==
  [][\A j \in updateQ :
       (updateQ' = updateQ \ {j} /\ faults = 0)
         => /\ cold'.end_time = j.endTime
            /\ cold'.current_bid = cold.current_bid
            /\ cold'.highest_bidder_id = cold.highest_bidder_id
            /\ cold'.total_bids = cold.total_bids]_vars

\* the rows of the bids table written for the bid of call r
RowsOf(r) == {i \in DOMAIN coldBids : coldBids[i].r = r}

\* C32: a bid the place-bid script accepted never has more than one row in
\* the bids table, and once its persist-bid job has left the queue it has
\* exactly one.
C32_OneRowPerBid ==
  \A r \in Reqs :
    /\ Cardinality(RowsOf(r)) <= 1
    /\ (req[r].status = 1 /\ req[r].pc \in {"extend", "done"}
          /\ ~\E j \in persistQ : j.r = r)
        => Cardinality(RowsOf(r)) = 1

\* C33: after every auction:join, auction:leave and disconnect, a
\* connected socket has the auction in its joinedAuctions set exactly when
\* it is in the room of the auction, a disconnected socket is in no room,
\* and a broadcast to the room reaches no disconnected socket.
C33_TrackedIsMembership ==
  [][/\ \A c \in Conns :
          IF sockets'[c].connected
          THEN (sockets'[c].joinedAuctions # {}) <=> (c \in room')
          ELSE c \notin room'
     /\ cursor' # cursor
          => \A c \in emitted'.to : sockets[c].connected]_vars

\* C34: a hot record that has no accepted bid yet has current_bid equal to
\* its starting_price, and the history entry of a first bid carries
\* previous_bid equal to the starting price.
C34_CurrentBidIsStartingPrice ==
  /\ (hot.exists /\ IsFirstBid(hot) /\ hot.total_bids = 0)
       => hot.current_bid = hot.starting_price
  /\ \A b \in hotBids :
       b.previous_bid \in {InitialRow.starting_price} \cup
                          {a.amount : a \in hotBids}

\* the auction is finalized: ended in the hot record and in the cold row,
\* AUCTION_ENDED published
Finalized ==
  /\ hot.exists /\ hot.status = "ended"
  /\ cold.status = "ended"
  /\ Len(EndedEvents) > 0

\* C35: the finalization job of an auction with bids uses up its attempts
\* only on an auction that is finalized: when the job is finished, after
\* its last attempt or before, the auction whose end time has passed is
\* ended in both stores and AUCTION_ENDED is published, also when the end
\* time was extended after the job was scheduled.
C35_FinalizedWhenJobDone ==
  (finalJob.state \in {"completed", "failed"} /\ hot.exists
     /\ hot.total_bids > 0)
    => Finalized

\* the calls whose bid the place-bid script accepted
AcceptedCalls == {r \in Reqs : req[r].status = 1 /\ req[r].pc # "crashed"}

\* C36: the total_bids of the hot record is the number of bids the script
\* has accepted and the number of entries of the hot bid history, and the
\* totalBids values returned for the accepted bids are 1, 2, ... without
\* gap or repeat, also after the record was lost and hydrated again.
C36_TotalBidsCounts ==
  /\ hot.exists
       => /\ hot.total_bids = Len(commits)
          /\ hot.total_bids = Cardinality(hotBids)
  /\ \A r \in AcceptedCalls : req[r].totalBids = CommitPos(r)

\* C37: the auction is in the active index exactly when its hot record
\* exists with status active, and its score is the end_time of the
\* record.
C37_ActiveIndex ==
  /\ (activeIdx # NoTime) <=> (hot.exists /\ hot.status = "active")
  /\ activeIdx # NoTime => activeIdx = hot.end_time

\* C38: the bidder of a call is the user of the socket that sent the
\* message, whatever userId and timestamp the payload carries: under that
\* user the call passes the rate gate, is admitted at the server's time,
\* committed, queued for persistence, written to the bids table and
\* published.
C38_BidderIsSocketUser ==
  [][/\ \A r \in Reqs :
          (req[r].pc = "idle" /\ req'[r].pc # "idle")
            => /\ req'[r].bidder = msgs'[r].conn
               /\ (req'[r].code = "RATE_LIMIT_EXCEEDED")
                    <=> (msgs'[r].conn \in rateTokens)
               /\ req'[r].pc = "p1"
                    => /\ req'[r].time = now
                       /\ rateTokens' = rateTokens \cup {msgs'[r].conn}
     /\ \A i \in DOMAIN commits' :
          /\ commits'[i].bidder = msgs'[commits'[i].r].conn
          /\ commits'[i].time = req'[commits'[i].r].time
     /\ \A j \in persistQ' : j.bidder = msgs'[j.r].conn
     /\ \A i \in DOMAIN coldBids' :
          coldBids'[i].bidder_id = msgs'[coldBids'[i].r].conn
     /\ \A i \in DOMAIN bus' :
          bus'[i].type = "bid_placed"
            => bus'[i].bidder = msgs'[bus'[i].r].conn]_vars

\* a bid whose payload named another user and a timestamp after the end
\* was accepted, written to the bids table and published
C38_Witness ==
  \E r \in Reqs :
    /\ msgs[r].userId \notin {"", msgs[r].conn}
    /\ msgs[r].timestamp = 2000
    /\ req[r].status = 1
    /\ RowsOf(r) # {}
    /\ r \in Published

\* the end times announced to the room with AUCTION_EXTENDED
AnnouncedEnds ==
  {bus[i].newEndTime :
     i \in {k \in DOMAIN bus : bus[k].type = "bid_placed"
                                /\ bus[k].extended}}

\* the current end time of the auction: that of the hot record, and with
\* the hot record missing the latest end time the auction was given
CurrentEndTime ==
  IF hot.exists THEN hot.end_time
  ELSE CHOOSE t \in AnnouncedEnds \cup {cold.end_time} :
         \A u \in AnnouncedEnds \cup {cold.end_time} : u <= t

\* the step marks the auction ended in a store or publishes AUCTION_ENDED
MarksEnded ==
  \/ hot'.exists /\ hot'.status = "ended"
       /\ ~(hot.exists /\ hot.status = "ended")
  \/ cold'.status = "ended" /\ cold.status # "ended"
  \/ Len(bus') > Len(bus) /\ bus'[Len(bus')].type = "ended"

\* C39: no step marks the auction ended in the hot or the cold store or
\* publishes AUCTION_ENDED while the server time is before the current
\* end time of the auction, also when the finalization job finds no hot
\* record.
C39_NoEarlyEnd ==
  [][MarksEnded => now >= CurrentEndTime]_vars

\* C40: every finalize job the expiry listener adds carries the id of the
\* auction: the expiry of the bid-history key or of a rate-limit key adds
\* no job
C40_ListenerJobsAreAuctions ==
  /\ \A b \in {"u1", "u2"} : ListenerJobs(RateLimitKey(b)) = {}
  /\ \A a \in listenerJobs : a = <<"id">>

====
